---- MODULE Spec2Model ----
(***************************************************************************)
(* Model of bulump/db-security-scanner: the CIS rule catalog               *)
(* (src/agents/cis_rules.py), the result normalizers and the risk          *)
(* aggregator (src/scanner.py), the scan that sequences them with the      *)
(* connector (src/connectors) and the agents (src/agents), and the /scan   *)
(* endpoint with its report store (app.py).                                *)
(*                                                                         *)
(* Python values are modelled as follows.                                  *)
(*   dict   a function whose DOMAIN is the set of keys present             *)
(*   list   a sequence; JSON null in place of a list is JsonNull           *)
(*   str    a string; None is the string "<None>"                          *)
(*   number a record [n, d, f]: the value n/d in lowest terms, f = TRUE    *)
(*          when the Python object is a float, FALSE when it is an int.    *)
(*          A float is kept as the exact rational; on the inputs drawn     *)
(*          here every comparison the code makes on a float (< against a   *)
(*          multiple of 5, > 0, >= 90/70/50) has the same outcome on the   *)
(*          IEEE double as on the exact value.                             *)
(***************************************************************************)
EXTENDS Integers, Sequences, FiniteSets, TLC

VARIABLES
    pc,                  \* position of the operation under way
    compliance_framework,\* scan(): the compliance_framework argument
    configuration,       \* db_info['configuration'] / the config argument
    config_analysis,     \* normalized configuration analysis
    vulnerability_analysis, \* normalized vulnerability analysis
    compliance_checks,   \* run_all_checks result
    compliance_analysis, \* normalized compliance analysis
    summary,             \* get_compliance_summary result
    risk_assessment,     \* _calculate_overall_risk result
    report,              \* scan() result
    connection,          \* PostgreSQLConnector.connection
    exception,           \* the exception scan() is raising, if any
    analysis_raw,        \* the oracle payload handed to a normalizer
    calls,               \* how often each collaborator has been invoked
    oracle_errors,       \* the analyses whose agent caught a failed oracle call
    connect_error,       \* the psycopg2.Error connect() caught, if any
    request,             \* run_scan(): the JSON body of the /scan request
    response,            \* run_scan(): the HTTP status returned
    scan_results,        \* app.scan_results: scan_id -> report
    clock,               \* datetime.now(), in ticks
    handlers             \* the /scan requests being served concurrently

\* the state of one scan
scanVars == <<pc, compliance_framework, configuration, config_analysis,
              vulnerability_analysis, compliance_checks, compliance_analysis,
              summary, risk_assessment, report, connection, exception>>

\* what a scan's collaborators saw
traceVars == <<analysis_raw, calls, oracle_errors, connect_error>>

\* the state of the web application
serviceVars == <<request, response, scan_results, clock, handlers>>

vars == <<scanVars, traceVars, serviceVars>>

-----------------------------------------------------------------------------
(* Bounds of the model                                                     *)

\* longest list of arbitrary items drawn for an oracle payload
MaxItems == 2
\* longest list of identical items (lets the penalties pass 100)
MaxRepeat == 6
\* largest number of checks in a small compliance payload
MaxTotal == 4
\* number of checks in a large compliance payload (every whole percentage)
LargeTotal == 100
\* number of /scan requests served concurrently
MaxRequests == 2
\* last tick of the clock
MaxClock == 3
\* ticks of the clock within one second
TicksPerSecond == 2

-----------------------------------------------------------------------------
(* Python values                                                           *)

None == "<None>"

\* the empty dict
EmptyDict == [k \in {} |-> None]

\* dict.get(key, default)
DictGet(d, key, default) == IF key \in DOMAIN d THEN d[key] ELSE default

\* JSON null (Python None) held where a reply should hold a list: a value
\* apart from every list of items the model draws
JsonNull == <<[json_null |-> TRUE]>>

\* "for item in v" and len(v) raise TypeError when v is None
NotIterable(v) == v = JsonNull

RECURSIVE GCD(_, _)
GCD(a, b) == IF b = 0 THEN a ELSE GCD(b, a % b)

Abs(x) == IF x < 0 THEN -x ELSE x

\* the number n/d (d > 0) in lowest terms; f: it is a float
Num(n, d, f) ==
    LET g == GCD(Abs(n), d) IN [n |-> n \div g, d |-> d \div g, f |-> f]

\* a Python int
PyInt(i) == [n |-> i, d |-> 1, f |-> FALSE]

NumLt(a, b) == a.n * b.d < b.n * a.d
NumLe(a, b) == a.n * b.d <= b.n * a.d
NumEq(a, b) == a.n * b.d = b.n * a.d

\* int - int
IntSub(a, i) == PyInt(a.n - i)

\* Python min(a, b): b only when b < a, otherwise the first argument
PyMin(a, b) == IF NumLt(b, a) THEN b ELSE a

\* Python max(a, b): b only when b > a, otherwise the first argument
PyMax(a, b) == IF NumLt(a, b) THEN b ELSE a

\* (passed / total * 100): true division gives a float
Percentage(passed, total) == Num(passed * 100, total, TRUE)

\* A comprehension [x for x in s if P(x)] is SelectSeq(s, P), the count
\* sum(1 for x in s if P(x)) is its length, and a loop that appends F(x) for
\* each x of s builds [i \in 1..Len(s) |-> F(s[i])].

\* str.upper() on the risk levels
Upper(s) ==
    CASE s = "low" -> "LOW"
      [] s = "medium" -> "MEDIUM"
      [] s = "high" -> "HIGH"
      [] s = "critical" -> "CRITICAL"
      [] OTHER -> s

-----------------------------------------------------------------------------
(* Rule catalog: src/agents/cis_rules.py                                   *)

\* config.get(param, {}).get('value', default)
ParamValue(config, param, default) ==
    DictGet(DictGet(config, param, EmptyDict), "value", default)

CheckResult(id, title, requirement, value, required, pass, sev, remediation) ==
    [check_id |-> id, title |-> title, requirement |-> requirement,
     current_value |-> value, required_value |-> required,
     status |-> IF pass THEN "PASS" ELSE "FAIL", severity |-> sev,
     remediation |-> remediation]

check_2_2_logging_collector(config) ==
    LET value == ParamValue(config, "logging_collector", "off")
    IN CheckResult("2.2", "Ensure the logging collector is enabled",
                   "logging_collector must be set to ON",
                   value, "on", value = "on", "high",
                   "Set logging_collector = on in postgresql.conf")

check_2_3_log_connections(config) ==
    LET value == ParamValue(config, "log_connections", "off")
    IN CheckResult("2.3", "Ensure log_connections is enabled",
                   "log_connections must be set to ON",
                   value, "on", value = "on", "medium",
                   "Set log_connections = on in postgresql.conf")

check_2_4_log_disconnections(config) ==
    LET value == ParamValue(config, "log_disconnections", "off")
    IN CheckResult("2.4", "Ensure log_disconnections is enabled",
                   "log_disconnections must be set to ON",
                   value, "on", value = "on", "medium",
                   "Set log_disconnections = on in postgresql.conf")

check_4_2_ssl_enabled(config) ==
    LET value == ParamValue(config, "ssl", "off")
    IN CheckResult("4.2", "Ensure SSL is enabled",
                   "ssl must be set to ON",
                   value, "on", value = "on", "critical",
                   "Set ssl = on in postgresql.conf and configure SSL certificates")

\* the unset default taken to be the required value
check_4_3_password_encryption_DefaultScram(config) ==
    LET value == ParamValue(config, "password_encryption", "scram-sha-256")
    IN CheckResult("4.3", "Ensure password_encryption uses SCRAM-SHA-256",
                   "password_encryption must be scram-sha-256",
                   value, "scram-sha-256", value = "scram-sha-256", "critical",
                   "Set password_encryption = scram-sha-256 in postgresql.conf")

check_4_3_password_encryption(config) ==
    LET value == ParamValue(config, "password_encryption", "md5")
    IN CheckResult("4.3", "Ensure password_encryption uses SCRAM-SHA-256",
                   "password_encryption must be scram-sha-256",
                   value, "scram-sha-256", value = "scram-sha-256", "critical",
                   "Set password_encryption = scram-sha-256 in postgresql.conf")

acceptable_values == {"ddl", "mod", "all"}

\* 'none' taken as an acceptable value
check_2_5_log_statement_AcceptsNone(config) ==
    LET value == ParamValue(config, "log_statement", "none")
    IN CheckResult("2.5", "Ensure log_statement is set to ddl or higher",
                   "log_statement must be ddl, mod, or all",
                   value, "ddl (minimum)",
                   value \in acceptable_values \cup {"none"}, "high",
                   "Set log_statement = ddl (or mod/all) in postgresql.conf")

check_2_5_log_statement(config) ==
    LET value == ParamValue(config, "log_statement", "none")
    IN CheckResult("2.5", "Ensure log_statement is set to ddl or higher",
                   "log_statement must be ddl, mod, or all",
                   value, "ddl (minimum)", value \in acceptable_values, "high",
                   "Set log_statement = ddl (or mod/all) in postgresql.conf")

\* check 2.4 left out of the list
run_all_checks_Dropped(config) ==
    << check_2_2_logging_collector(config),
       check_2_3_log_connections(config),
       check_2_5_log_statement(config),
       check_4_2_ssl_enabled(config),
       check_4_3_password_encryption(config) >>

run_all_checks(config) ==
    << check_2_2_logging_collector(config),
       check_2_3_log_connections(config),
       check_2_4_log_disconnections(config),
       check_2_5_log_statement(config),
       check_4_2_ssl_enabled(config),
       check_4_3_password_encryption(config) >>

IsPass(c) == c.status = "PASS"
IsCriticalFailure(c) == c.status = "FAIL" /\ c.severity = "critical"

IsCritical(c) == c.severity = "critical"

\* critical_failures counting every critical check, passed or not
get_compliance_summary_AllCritical(config) ==
    LET checks == run_all_checks(config)
        total == Len(checks)
        passed == Len(SelectSeq(checks, IsPass))
    IN [total_checks |-> total,
        passed |-> passed,
        failed |-> total - passed,
        compliance_percentage |->
            IF total > 0 THEN Percentage(passed, total) ELSE PyInt(0),
        critical_failures |-> Len(SelectSeq(checks, IsCritical)),
        all_checks |-> checks]

get_compliance_summary(config) ==
    LET checks == run_all_checks(config)
        total == Len(checks)
        passed == Len(SelectSeq(checks, IsPass))
        failed == total - passed
        critical_failures == SelectSeq(checks, IsCriticalFailure)
    IN [total_checks |-> total,
        passed |-> passed,
        failed |-> failed,
        compliance_percentage |->
            IF total > 0 THEN Percentage(passed, total) ELSE PyInt(0),
        critical_failures |-> Len(critical_failures),
        all_checks |-> checks]

-----------------------------------------------------------------------------
(* Result normalizers: src/scanner.py                                      *)

\* the critical issue keeps the severity the oracle gave it
ConfigCriticalIssue_KeepsSeverity(item) ==
    [title |-> DictGet(item, "parameter", "Unknown") \o " Misconfiguration",
     description |-> DictGet(item, "issue", ""),
     severity |-> DictGet(item, "severity", "critical"),
     remediation |-> DictGet(item, "recommendation", "")]

ConfigCriticalIssue(item) ==
    [title |-> DictGet(item, "parameter", "Unknown") \o " Misconfiguration",
     description |-> DictGet(item, "issue", ""),
     severity |-> "critical",
     remediation |-> DictGet(item, "recommendation", "")]

\* the warning keeps the severity the oracle gave it
ConfigWarningIssue_KeepsSeverity(item) ==
    [title |-> DictGet(item, "parameter", "Unknown") \o " Warning",
     description |-> DictGet(item, "concern", ""),
     severity |-> DictGet(item, "severity", "medium"),
     remediation |-> DictGet(item, "recommendation", "")]

ConfigWarningIssue(item) ==
    [title |-> DictGet(item, "parameter", "Unknown") \o " Warning",
     description |-> DictGet(item, "concern", ""),
     severity |-> "medium",
     remediation |-> DictGet(item, "recommendation", "")]

_transform_config_analysis(raw) ==
    LET critical_issues == DictGet(raw, "critical_issues", <<>>)
        warnings == DictGet(raw, "warnings", <<>>)
    IN [issues |->
            [i \in 1..Len(critical_issues) |->
                ConfigCriticalIssue(critical_issues[i])]
            \o [i \in 1..Len(warnings) |-> ConfigWarningIssue(warnings[i])]]

\* a vulnerability without severity is rated low, one without cve gets ""
VulnerabilityFinding_OtherDefaults(item) ==
    [title |-> DictGet(item, "title", "Unknown Vulnerability"),
     description |-> DictGet(item, "description", ""),
     severity |-> DictGet(item, "severity", "low"),
     cve_id |-> DictGet(item, "cve_id", ""),
     remediation |-> DictGet(item, "remediation", "")]

VulnerabilityFinding(item) ==
    [title |-> DictGet(item, "title", "Unknown Vulnerability"),
     description |-> DictGet(item, "description", ""),
     severity |-> DictGet(item, "severity", "medium"),
     cve_id |-> DictGet(item, "cve_id", None),
     remediation |-> DictGet(item, "remediation", "")]

_transform_vulnerability_analysis(raw) ==
    LET items == DictGet(raw, "vulnerabilities", <<>>)
    IN [vulnerabilities |->
            [i \in 1..Len(items) |-> VulnerabilityFinding(items[i])]]

CisFailedCheck(check) ==
    [check_id |-> DictGet(check, "check_id", "Unknown"),
     title |-> DictGet(check, "title", ""),
     requirement |-> DictGet(check, "requirement", ""),
     current_value |-> DictGet(check, "current_value", ""),
     severity |-> DictGet(check, "severity", "medium"),
     remediation |-> DictGet(check, "remediation", "")]

\* every result that carries a status counts as passed
CisCheckPassed_AnyStatus(check) == DictGet(check, "status", None) # None

CisCheckPassed(check) == DictGet(check, "status", None) = "PASS"
CisCheckNotPassed(check) == ~CisCheckPassed(check)

\* a variant that reports every check, passed ones included, as failed
_transform_cis_checks_KeepsPassed(checks) ==
    LET passed_checks == Len(SelectSeq(checks, CisCheckPassed))
        total_checks == Len(checks)
        failed_checks == [i \in 1..Len(checks) |-> CisFailedCheck(checks[i])]
    IN [passed_checks |-> passed_checks,
        total_checks |-> total_checks,
        compliance_percentage |->
            IF total_checks > 0 THEN Percentage(passed_checks, total_checks)
            ELSE PyInt(100),
        failed_checks |-> failed_checks]

_transform_cis_checks(checks) ==
    LET passed_checks == Len(SelectSeq(checks, CisCheckPassed))
        total_checks == Len(checks)
        failed == SelectSeq(checks, CisCheckNotPassed)
        failed_checks == [i \in 1..Len(failed) |-> CisFailedCheck(failed[i])]
    IN [passed_checks |-> passed_checks,
        total_checks |-> total_checks,
        compliance_percentage |->
            IF total_checks > 0 THEN Percentage(passed_checks, total_checks)
            ELSE PyInt(100),
        failed_checks |-> failed_checks]

OracleFailedCheck(check) ==
    [check_id |-> DictGet(check, "check_id", "Unknown"),
     title |-> DictGet(check, "title", ""),
     requirement |-> DictGet(check, "requirement", ""),
     current_value |-> DictGet(check, "current_state", ""),
     severity |-> DictGet(check, "risk_level", "medium"),
     remediation |-> DictGet(check, "remediation", "")]

_transform_compliance_analysis(raw) ==
    LET passed == DictGet(raw, "passed_checks", <<>>)
        failed == DictGet(raw, "failed_checks", <<>>)
        failed_checks == [i \in 1..Len(failed) |-> OracleFailedCheck(failed[i])]
        total_checks == Len(passed) + Len(failed)
        passed_checks == Len(passed)
    IN [passed_checks |-> passed_checks,
        total_checks |-> total_checks,
        compliance_percentage |->
            IF total_checks > 0 THEN Percentage(passed_checks, total_checks)
            ELSE PyInt(100),
        failed_checks |-> failed_checks]

\* The normalizers above give the value returned when the loops run to the
\* end.  A list key present with the value None makes the loop (or len)
\* raise TypeError instead; raw.get(key, []) takes the default only when the
\* key is missing.

\* the key is absent, or holds a list
ListOrMissing(r, key) == ~NotIterable(DictGet(r, key, <<>>))

_transform_config_analysis_raises(r) ==
    ~ListOrMissing(r, "critical_issues") \/ ~ListOrMissing(r, "warnings")

_transform_vulnerability_analysis_raises(r) ==
    ~ListOrMissing(r, "vulnerabilities")

_transform_compliance_analysis_raises(r) ==
    ~ListOrMissing(r, "failed_checks") \/ ~ListOrMissing(r, "passed_checks")

-----------------------------------------------------------------------------
(* Risk aggregator: src/scanner.py                                         *)

\* i.get('severity') == 'critical'
IsCriticalIssue(i) == DictGet(i, "severity", None) = "critical"
\* i.get('severity') in ['medium', 'high']
IsWarningIssue(i) == DictGet(i, "severity", None) \in {"medium", "high"}

\* the compliance ceiling taken before the deductions
RiskScore_CeilingFirst(critical_issues, warnings, vulnerabilities, compliance_pct) ==
    LET s0 == PyMin(PyInt(100), compliance_pct)
        s1 == Num(s0.n - s0.d * (critical_issues * 20 + warnings * 5
                                 + vulnerabilities * 10), s0.d, s0.f)
    IN PyMax(PyInt(0), s1)

\* a negative score made positive in place of the clamp at 0
RiskScore_AbsClamp(critical_issues, warnings, vulnerabilities, compliance_pct) ==
    LET s3 == PyInt(100 - critical_issues * 20 - warnings * 5
                    - vulnerabilities * 10)
        s4 == PyMin(s3, compliance_pct)
    IN Num(Abs(s4.n), s4.d, s4.f)

\* the clamp at 0 left out
RiskScore_NoClamp(critical_issues, warnings, vulnerabilities, compliance_pct) ==
    LET s3 == PyInt(100 - critical_issues * 20 - warnings * 5
                    - vulnerabilities * 10)
    IN PyMin(s3, compliance_pct)

\* risk_score after the deductions, the compliance ceiling and the clamp
RiskScore(critical_issues, warnings, vulnerabilities, compliance_pct) ==
    LET s0 == PyInt(100)
        s1 == IntSub(s0, critical_issues * 20)
        s2 == IntSub(s1, warnings * 5)
        s3 == IntSub(s2, vulnerabilities * 10)
        s4 == PyMin(s3, compliance_pct)
    IN PyMax(PyInt(0), s4)

\* the low band starting at 80
RiskLevel_LowFrom80(risk_score) ==
    IF NumLe(PyInt(80), risk_score) THEN "low"
    ELSE IF NumLe(PyInt(70), risk_score) THEN "medium"
    ELSE IF NumLe(PyInt(50), risk_score) THEN "high"
    ELSE "critical"

\* the low band starting above 90
RiskLevel_StrictLow(risk_score) ==
    IF NumLt(PyInt(90), risk_score) THEN "low"
    ELSE IF NumLe(PyInt(70), risk_score) THEN "medium"
    ELSE IF NumLe(PyInt(50), risk_score) THEN "high"
    ELSE "critical"

RiskLevel(risk_score) ==
    IF NumLe(PyInt(90), risk_score) THEN "low"
    ELSE IF NumLe(PyInt(70), risk_score) THEN "medium"
    ELSE IF NumLe(PyInt(50), risk_score) THEN "high"
    ELSE "critical"

\* critical failed compliance checks counted as critical issues
_calculate_overall_risk_CountsFailedChecks(config, vuln, compliance) ==
    LET issues == DictGet(config, "issues", <<>>)
                  \o DictGet(compliance, "failed_checks", <<>>)
        critical_issues == Len(SelectSeq(issues, IsCriticalIssue))
        warnings == Len(SelectSeq(DictGet(config, "issues", <<>>), IsWarningIssue))
        vulnerabilities == Len(DictGet(vuln, "vulnerabilities", <<>>))
        compliance_pct == DictGet(compliance, "compliance_percentage", PyInt(100))
        risk_score == RiskScore(critical_issues, warnings, vulnerabilities,
                                compliance_pct)
    IN [security_score |-> risk_score,
        risk_level |-> RiskLevel(risk_score),
        critical_issue_count |-> critical_issues,
        warning_count |-> warnings,
        vulnerability_count |-> vulnerabilities,
        compliance_percentage |-> compliance_pct]

_calculate_overall_risk(config, vuln, compliance) ==
    LET issues == DictGet(config, "issues", <<>>)
        critical_issues == Len(SelectSeq(issues, IsCriticalIssue))
        warnings == Len(SelectSeq(issues, IsWarningIssue))
        vulnerabilities == Len(DictGet(vuln, "vulnerabilities", <<>>))
        compliance_pct == DictGet(compliance, "compliance_percentage", PyInt(100))
        risk_score == RiskScore(critical_issues, warnings, vulnerabilities,
                                compliance_pct)
    IN [security_score |-> risk_score,
        risk_level |-> RiskLevel(risk_score),
        critical_issue_count |-> critical_issues,
        warning_count |-> warnings,
        vulnerability_count |-> vulnerabilities,
        compliance_percentage |-> compliance_pct]

-----------------------------------------------------------------------------
(* Input sets                                                              *)

\* the sequences over S of length at most n
SeqsUpTo(S, n) == UNION {[1..k -> S] : k \in 0..n}

\* the list of n copies of x
Repeat(x, n) == [i \in 1..n |-> x]

\* the parameters the catalog reads, and the settings each may hold
Params == {"logging_collector", "log_connections", "log_disconnections",
           "log_statement", "ssl", "password_encryption"}

Absent == "<absent>"
NoValue == "<novalue>"

\* the snapshot a choice describes: per parameter a setting, a record with
\* no value field, or no entry
SnapshotOf(choice) ==
    [p \in {q \in DOMAIN choice : choice[q] # Absent} |->
        IF choice[p] = NoValue THEN [unit |-> None]
        ELSE [value |-> choice[p], unit |-> None]]

\* the snapshots whose on/off parameters, password_encryption and
\* log_statement are described by the given choices
SnapshotsOver(onoff, pwenc, logstmt) ==
    {SnapshotOf([logging_collector |-> a, log_connections |-> b,
                 log_disconnections |-> c, log_statement |-> d,
                 ssl |-> e, password_encryption |-> f]) :
        a \in onoff, b \in onoff, c \in onoff, d \in logstmt,
        e \in onoff, f \in pwenc}

Missing == {Absent, NoValue}

Snapshots ==
    SnapshotsOver({"on", "off"} \cup Missing,
                  {"scram-sha-256", "md5"} \cup Missing,
                  {"none", "ddl", "mod", "all"} \cup Missing)

\* the severities an issue handed to the aggregator may carry (or none)
IssueItems ==
    {EmptyDict} \cup
    {[severity |-> sv] : sv \in {"critical", "high", "medium", "low"}}

AggIssueLists ==
    SeqsUpTo(IssueItems, MaxItems)
    \cup {Repeat([severity |-> "critical"], k) : k \in 0..MaxRepeat}

AggConfigInputs == {EmptyDict} \cup {[issues |-> l] : l \in AggIssueLists}

AggVulnInputs ==
    {EmptyDict} \cup
    {[vulnerabilities |-> Repeat(EmptyDict, k)] : k \in 0..MaxItems}

\* the percentages the normalizers compute, and the default
Percentages ==
    UNION {{Percentage(p, t) : p \in 0..t} : t \in (1..MaxTotal) \cup {LargeTotal}}
    \cup {PyInt(100)}

AggComplianceInputs ==
    {EmptyDict} \cup {[compliance_percentage |-> x] : x \in Percentages}

\* the report scan() compiles
CompileReport(framework, config, vuln, compliance, risk) ==
    [scan_info |-> [compliance_framework |-> framework],
     config_analysis |-> config,
     vulnerability_analysis |-> vuln,
     compliance_analysis |-> compliance,
     security_score |-> risk.security_score,
     risk_level |-> Upper(risk.risk_level),
     critical_issues |-> risk.critical_issue_count,
     overall_risk_assessment |-> risk]

-----------------------------------------------------------------------------
(* The collaborators of a scan *)

\* the collaborators whose invocations are counted
Collaborators ==
    {"scanner", "connect", "config_oracle", "vulnerability_oracle",
     "compliance_oracle", "rule_catalog"}

\* the collector calls of the with block, in the order scan() makes them
Collectors ==
    <<"get_version", "get_configuration", "get_users",
      "get_security_settings", "check_encryption", "check_audit_logging">>

NoCalls == [c \in Collaborators \cup {"collector"} |-> 0]

\* n collector calls have been made
Collected(n) == [calls EXCEPT !.collector = @ + n]

\* one more invocation of collaborator c
Called(c) == [calls EXCEPT ![c] = @ + 1]

\* no scan has run: nothing was handed to a normalizer, no collaborator was
\* invoked
TraceInit ==
    /\ analysis_raw = None
    /\ calls = NoCalls
    /\ oracle_errors = {}
    /\ connect_error = None

\* the application has served no request
ServiceInit ==
    /\ request = None
    /\ response = None
    /\ scan_results = EmptyDict
    /\ clock = 0
    /\ handlers = <<>>

\* disconnect() leaves the connection open
disconnect_LeavesOpen(conn) == conn

\* PostgreSQLConnector.disconnect: the connection after the call
disconnect(conn) == IF conn # None THEN None ELSE conn

\* ConfigAnalyzerAgent.analyze with the except clause left out: the failure
\* reaches the caller as a payload without lists
analyze_NoLists(outcome) ==
    IF "raises" \in DOMAIN outcome
    THEN [error |-> outcome.raises, critical_issues |-> JsonNull]
    ELSE outcome.json

\* ConfigAnalyzerAgent.analyze: the parsed reply, or the error payload built
\* by the except clause
analyze(outcome) ==
    IF "raises" \in DOMAIN outcome
    THEN [error |-> outcome.raises, overall_risk_level |-> "unknown",
          critical_issues |-> <<>>, warnings |-> <<>>,
          best_practices |-> <<>>, compliance_notes |-> <<>>]
    ELSE outcome.json

\* VulnerabilityDetectorAgent.detect: the parsed reply, or an error-flagged
\* object without findings
detect(outcome) ==
    IF "raises" \in DOMAIN outcome
    THEN [error |-> outcome.raises, vulnerabilities |-> <<>>]
    ELSE outcome.json

\* ComplianceCheckerAgent.check_compliance: the parsed reply, or the error
\* payload built by the except clause
check_compliance(outcome, framework) ==
    IF "raises" \in DOMAIN outcome
    THEN [error |-> outcome.raises, framework |-> framework,
          compliance_percentage |-> PyInt(0), overall_status |-> "error",
          passed_checks |-> <<>>, failed_checks |-> <<>>,
          recommendations |-> <<>>]
    ELSE outcome.json

\* the rule catalog serves every framework spelt like CIS
UsesRuleCatalog_AnyCase(framework) == framework \in {"CIS", "cis"}

\* compliance_framework == "CIS" and db_type == "postgresql", db_type being
\* the constant "postgresql"
UsesRuleCatalog(framework) == framework = "CIS" /\ "postgresql" = "postgresql"

(* The web application: app.py *)

\* bool(v) of a request field: None and the empty string are false
Truthy(v) == v \notin {None, ""}

\* all(values)
all(values) == \A i \in DOMAIN values : Truthy(values[i])

\* the JSON body holding the fields a choice gives
RequestOf(choice) ==
    [k \in {q \in DOMAIN choice : choice[q] # Absent} |-> choice[k]]

\* data.get('port', 5432)
DefaultPort == "5432"

\* the port values int() converts
NumericPorts == {"5432"}

\* int(v) raises ValueError
int_raises(v) == v \notin NumericPorts

\* datetime.now().strftime('%Y%m%d_%H%M%S'): the time down to the second
strftime(now) == now \div TicksPerSecond

\* d[key] = value
SetItem(d, key, value) ==
    [k \in DOMAIN d \cup {key} |-> IF k = key THEN value ELSE d[k]]

-----
(* State machines                                                          *)

(* The rule catalog applied to a snapshot *)

InitCatalog ==
    /\ pc = "catalog"
    /\ configuration \in Snapshots
    /\ compliance_framework = None
    /\ config_analysis = None
    /\ vulnerability_analysis = None
    /\ compliance_checks = None
    /\ compliance_analysis = None
    /\ summary = None
    /\ risk_assessment = None
    /\ report = None
    /\ connection = None
    /\ exception = None
    /\ TraceInit
    /\ ServiceInit

RunAllChecks ==
    /\ pc = "catalog"
    /\ compliance_checks' = run_all_checks(configuration)
    /\ pc' = "checked"
    /\ UNCHANGED <<compliance_framework, configuration, config_analysis,
                   vulnerability_analysis, compliance_analysis, summary,
                   risk_assessment, report, connection, exception,
                   traceVars, serviceVars>>

GetComplianceSummary ==
    /\ pc = "checked"
    /\ summary' = get_compliance_summary(configuration)
    /\ pc' = "summarized"
    /\ UNCHANGED <<compliance_framework, configuration, config_analysis,
                   vulnerability_analysis, compliance_checks,
                   compliance_analysis, risk_assessment, report,
                   connection, exception, traceVars, serviceVars>>

\* the lists of check results handed to _transform_cis_checks: the catalog's
\* results, or the first n of them
CheckLists(checks) == {SubSeq(checks, 1, n) : n \in 0..Len(checks)}

TransformCisChecks ==
    /\ pc = "summarized"
    /\ \E checks \in CheckLists(compliance_checks) :
          /\ analysis_raw' = checks
          /\ compliance_analysis' = _transform_cis_checks(checks)
    /\ pc' = "transformed"
    /\ UNCHANGED <<compliance_framework, configuration, config_analysis,
                   vulnerability_analysis, compliance_checks, summary,
                   risk_assessment, report, connection, exception,
                   calls, oracle_errors, connect_error, serviceVars>>

NextCatalog == RunAllChecks \/ GetComplianceSummary \/ TransformCisChecks

SpecCatalog == InitCatalog /\ [][NextCatalog]_vars

(* The risk aggregator applied to three normalized analyses, and the report
   scan() compiles from its result *)

InitAggregator ==
    /\ pc = "aggregator"
    /\ config_analysis \in AggConfigInputs
    /\ vulnerability_analysis \in AggVulnInputs
    /\ compliance_analysis \in AggComplianceInputs
    /\ compliance_framework = None
    /\ configuration = None
    /\ compliance_checks = None
    /\ summary = None
    /\ risk_assessment = None
    /\ report = None
    /\ connection = None
    /\ exception = None
    /\ TraceInit
    /\ ServiceInit

CalculateOverallRisk ==
    /\ pc = "aggregator"
    /\ risk_assessment' = _calculate_overall_risk(config_analysis,
                              vulnerability_analysis, compliance_analysis)
    /\ report' = CompileReport(compliance_framework, config_analysis,
                               vulnerability_analysis, compliance_analysis,
                               risk_assessment')
    /\ pc' = "aggregated"
    /\ UNCHANGED <<compliance_framework, configuration, config_analysis,
                   vulnerability_analysis, compliance_checks,
                   compliance_analysis, summary, connection, exception,
                   traceVars, serviceVars>>

NextAggregator == CalculateOverallRisk

SpecAggregator == InitAggregator /\ [][NextAggregator]_vars

(* One /scan request: run_scan (app.py) and DatabaseSecurityScanner.scan *)

Frameworks == {"CIS", "STIG", "cis"}

\* the snapshots a scan gathers: every parameter set, to a passing or to a
\* failing value (the three logging switches alike), and the empty
\* configuration; between them they pass 0, 1, ..., 6 of the six checks
ScanSnapshots ==
    {SnapshotOf([logging_collector |-> a, log_connections |-> a,
                 log_disconnections |-> a, log_statement |-> d,
                 ssl |-> e, password_encryption |-> f]) :
        a \in {"on", "off"}, d \in {"ddl", "none"}, e \in {"on", "off"},
        f \in {"scram-sha-256", "md5"}}
    \cup {EmptyDict}

\* the lists of an oracle payload: a first item of any shape, then copies of
\* one item
PayloadLists(items, item) ==
    {<<>>} \cup {<<x>> \o Repeat(item, k) : x \in items, k \in 0..(MaxItems - 1)}

ConfigItem ==
    [parameter |-> "ssl", current_value |-> "off", issue |-> "SSL disabled",
     concern |-> "SSL disabled", recommendation |-> "Enable SSL",
     severity |-> "low"]

\* the JSON objects the configuration oracle may reply with
ConfigPayloads ==
    {[critical_issues |-> c, warnings |-> Repeat(ConfigItem, k)] :
        c \in PayloadLists({ConfigItem, EmptyDict}, ConfigItem),
        k \in 0..MaxItems}
    \cup {EmptyDict, [critical_issues |-> JsonNull, warnings |-> <<>>]}

VulnerabilityItem ==
    [title |-> "Weak Password Encryption", description |-> "MD5 in use",
     severity |-> "high", cve_id |-> "CVE-2024-0001",
     remediation |-> "Use scram-sha-256"]

VulnerabilityItems ==
    {VulnerabilityItem, EmptyDict, [title |-> "Note", severity |-> "info"]}

\* the JSON objects the vulnerability oracle may reply with
VulnerabilityPayloads ==
    {[vulnerabilities |-> v] :
        v \in PayloadLists(VulnerabilityItems, VulnerabilityItem)}
    \cup {EmptyDict, [vulnerabilities |-> JsonNull]}

FailedCheckItem ==
    [check_id |-> "1.2", title |-> "check title",
     requirement |-> "requirement", current_state |-> "configured",
     required_state |-> "required", risk_level |-> "critical",
     remediation |-> "how to fix"]

FailedCheckItems ==
    {FailedCheckItem, EmptyDict, [check_id |-> "1.3", risk_level |-> "severe"]}

PassedCheckItem == [check_id |-> "1.1", title |-> "check title"]

\* the JSON objects the compliance oracle may reply with
CompliancePayloads ==
    {[passed_checks |-> Repeat(PassedCheckItem, p), failed_checks |-> f] :
        p \in 0..MaxItems,
        f \in PayloadLists(FailedCheckItems, FailedCheckItem)}
    \cup {EmptyDict, [passed_checks |-> <<>>, failed_checks |-> JsonNull]}

\* how an oracle call ends inside an agent's try block: the reply parsed by
\* json.loads, or an exception (the service unreachable, a reply that is not
\* JSON)
OracleFailures ==
    {[raises |-> "APIConnectionError"], [raises |-> "JSONDecodeError"]}

OracleOutcomes(payloads) == {[json |-> x] : x \in payloads} \cup OracleFailures

Failed(outcome) == "raises" \in DOMAIN outcome

\* the /scan bodies: database, user and port each missing or given
Requests ==
    {RequestOf([database |-> d, user |-> u, port |-> p]) :
        d \in {Absent, "", "testdb"}, u \in {Absent, "", "postgres"},
        p \in {Absent, "abc"} \cup NumericPorts}

Init ==
    /\ pc = "idle"
    /\ compliance_framework = None
    /\ configuration = None
    /\ config_analysis = None
    /\ vulnerability_analysis = None
    /\ compliance_checks = None
    /\ compliance_analysis = None
    /\ summary = None
    /\ risk_assessment = None
    /\ report = None
    /\ connection = None
    /\ exception = None
    /\ TraceInit
    /\ ServiceInit

\* run_scan up to the call of scanner.scan: the body is read, port converted,
\* database and user validated, the scanner constructed
RunScan ==
    /\ pc = "idle"
    /\ \E data \in Requests :
          LET port == DictGet(data, "port", DefaultPort)
              database == DictGet(data, "database", None)
              user == DictGet(data, "user", None)
          IN IF int_raises(port)
             THEN /\ request' = data
                  /\ exception' = "ValueError"
                  /\ response' = [status |-> 500, error |-> "ValueError"]
                  /\ pc' = "responded"
                  /\ UNCHANGED calls
             ELSE IF ~all(<<database, user>>)
             THEN /\ request' = data
                  /\ response' =
                        [status |-> 400,
                         error |-> "Database name and user are required"]
                  /\ pc' = "responded"
                  /\ UNCHANGED <<calls, exception>>
             ELSE /\ request' = [database |-> database, user |-> user,
                                 port |-> port]
                  /\ calls' = Called("scanner")
                  /\ pc' = "accepted"
                  /\ UNCHANGED <<response, exception>>
    /\ UNCHANGED <<compliance_framework, configuration, config_analysis,
                   vulnerability_analysis, compliance_checks,
                   compliance_analysis, summary, risk_assessment, report,
                   connection, analysis_raw, oracle_errors, connect_error,
                   scan_results, clock, handlers>>

\* scan(host, port, database, user, password, compliance_framework) is called
Scan ==
    /\ pc = "accepted"
    /\ \E framework \in Frameworks : compliance_framework' = framework
    /\ pc' = "enter"
    /\ configuration' = None
    /\ config_analysis' = None
    /\ vulnerability_analysis' = None
    /\ compliance_checks' = None
    /\ compliance_analysis' = None
    /\ risk_assessment' = None
    /\ report' = None
    /\ connection' = None
    /\ exception' = None
    /\ UNCHANGED <<summary, traceVars, serviceVars>>

\* __enter__: connect() opens the connection, or catches psycopg2.Error,
\* prints it and returns False with connection still None
Connect ==
    /\ pc = "enter"
    /\ \E connected \in BOOLEAN :
          /\ connection' = IF connected THEN "open" ELSE None
          /\ connect_error' = IF connected THEN None ELSE "psycopg2.Error"
    /\ calls' = Called("connect")
    /\ pc' = "gather"
    /\ UNCHANGED <<compliance_framework, configuration, config_analysis,
                   vulnerability_analysis, compliance_checks,
                   compliance_analysis, summary, risk_assessment, report,
                   exception, analysis_raw, oracle_errors, serviceVars>>

\* the collector calls return whether or not a connection is open
GatherInfo_WithoutConnection ==
    /\ pc = "gather"
    /\ configuration' \in ScanSnapshots
    /\ calls' = Collected(Len(Collectors))
    /\ pc' = "exit"
    /\ UNCHANGED <<compliance_framework, config_analysis,
                   vulnerability_analysis, compliance_checks,
                   compliance_analysis, summary, risk_assessment, report,
                   connection, exception, analysis_raw, oracle_errors,
                   connect_error, serviceVars>>

\* the collector calls of the with block all return
GatherInfo ==
    /\ pc = "gather"
    /\ connection = "open"
    /\ configuration' \in ScanSnapshots
    /\ calls' = Collected(Len(Collectors))
    /\ pc' = "exit"
    /\ UNCHANGED <<compliance_framework, config_analysis,
                   vulnerability_analysis, compliance_checks,
                   compliance_analysis, summary, risk_assessment, report,
                   connection, exception, analysis_raw, oracle_errors,
                   connect_error, serviceVars>>

\* the n-th collector call raises: get_version() at once when connection is
\* None (self.connection.cursor()), any of the six when a query fails
GatherFails ==
    /\ pc = "gather"
    /\ exception' = IF connection = None THEN "AttributeError"
                    ELSE "psycopg2.Error"
    /\ \E n \in DOMAIN Collectors :
          /\ connection = None => n = 1
          /\ calls' = Collected(n)
    /\ pc' = "exit"
    /\ UNCHANGED <<compliance_framework, configuration, config_analysis,
                   vulnerability_analysis, compliance_checks,
                   compliance_analysis, summary, risk_assessment, report,
                   connection, analysis_raw, oracle_errors, connect_error,
                   serviceVars>>

\* __exit__: disconnect(); an exception of the block propagates out of scan
ExitContext ==
    /\ pc = "exit"
    /\ connection' = disconnect(connection)
    /\ pc' = IF exception = None THEN "config" ELSE "failed"
    /\ UNCHANGED <<compliance_framework, configuration, config_analysis,
                   vulnerability_analysis, compliance_checks,
                   compliance_analysis, summary, risk_assessment, report,
                   exception, traceVars, serviceVars>>

\* scan() raises e out of an analysis step: its locals are gone
Raise(e) ==
    /\ exception' = e
    /\ pc' = "failed"
    /\ configuration' = None
    /\ config_analysis' = None
    /\ vulnerability_analysis' = None
    /\ compliance_checks' = None
    /\ compliance_analysis' = None
    /\ risk_assessment' = None
    /\ analysis_raw' = None
    /\ UNCHANGED <<compliance_framework, summary, report, connection,
                   connect_error, serviceVars>>

\* config_analyzer.analyze(...) returns and its result is normalized
ConfigurationAnalysis ==
    /\ pc = "config"
    /\ calls' = Called("config_oracle")
    /\ \E outcome \in OracleOutcomes(ConfigPayloads) :
          LET config_analysis_raw == analyze(outcome)
          IN /\ oracle_errors' = IF Failed(outcome)
                                 THEN oracle_errors \cup {"config"}
                                 ELSE oracle_errors
             /\ IF _transform_config_analysis_raises(config_analysis_raw)
                THEN Raise("TypeError")
                ELSE /\ analysis_raw' = config_analysis_raw
                     /\ config_analysis' =
                            _transform_config_analysis(config_analysis_raw)
                     /\ pc' = "vulnerability"
                     /\ UNCHANGED <<compliance_framework, configuration,
                                    vulnerability_analysis, compliance_checks,
                                    compliance_analysis, summary,
                                    risk_assessment, report, connection,
                                    exception, connect_error, serviceVars>>

\* vulnerability_detector.detect(...) returns and its result is normalized
VulnerabilityDetection ==
    /\ pc = "vulnerability"
    /\ calls' = Called("vulnerability_oracle")
    /\ \E outcome \in OracleOutcomes(VulnerabilityPayloads) :
          LET vulnerability_analysis_raw == detect(outcome)
          IN /\ oracle_errors' = IF Failed(outcome)
                                 THEN oracle_errors \cup {"vulnerability"}
                                 ELSE oracle_errors
             /\ IF _transform_vulnerability_analysis_raises(
                       vulnerability_analysis_raw)
                THEN Raise("TypeError")
                ELSE /\ analysis_raw' = vulnerability_analysis_raw
                     /\ vulnerability_analysis' =
                            _transform_vulnerability_analysis(
                                vulnerability_analysis_raw)
                     /\ pc' = "compliance"
                     /\ UNCHANGED <<compliance_framework, configuration,
                                    config_analysis, compliance_checks,
                                    compliance_analysis, summary,
                                    risk_assessment, report, connection,
                                    exception, connect_error, serviceVars>>

\* the rest of scan() once the compliance analysis is known: the risk
\* assessment and the report; scan() returns and its locals are gone
Assess(compliance) ==
    LET risk == _calculate_overall_risk(config_analysis,
                    vulnerability_analysis, compliance)
    IN /\ report' = CompileReport(compliance_framework, config_analysis,
                                  vulnerability_analysis, compliance, risk)
       /\ pc' = "done"
       /\ configuration' = None
       /\ config_analysis' = None
       /\ vulnerability_analysis' = None
       /\ compliance_checks' = None
       /\ compliance_analysis' = None
       /\ risk_assessment' = None
       /\ analysis_raw' = None
       /\ UNCHANGED <<compliance_framework, summary, connection, exception,
                      connect_error, serviceVars>>

\* compliance by the hard-coded CIS rules
CisCompliance ==
    /\ pc = "compliance"
    /\ UsesRuleCatalog(compliance_framework)
    /\ calls' = Called("rule_catalog")
    /\ UNCHANGED oracle_errors
    /\ Assess(_transform_cis_checks(run_all_checks(configuration)))

\* compliance by the oracle, for the other frameworks
OracleCompliance ==
    /\ pc = "compliance"
    /\ ~UsesRuleCatalog(compliance_framework)
    /\ calls' = Called("compliance_oracle")
    /\ \E outcome \in OracleOutcomes(CompliancePayloads) :
          LET compliance_analysis_raw ==
                  check_compliance(outcome, compliance_framework)
          IN /\ oracle_errors' = IF Failed(outcome)
                                 THEN oracle_errors \cup {"compliance"}
                                 ELSE oracle_errors
             /\ IF _transform_compliance_analysis_raises(
                       compliance_analysis_raw)
                THEN Raise("TypeError")
                ELSE Assess(_transform_compliance_analysis(
                                compliance_analysis_raw))

\* run_scan after scanner.scan returned: the report is stored under the
\* scan id made from the time of day, then the reports are generated and the
\* summary is sent, or one of these calls raises and the except clause
\* answers 500
StoreAndRespond ==
    /\ pc = "done"
    /\ LET scan_id == strftime(clock)
       IN /\ scan_results' = SetItem(scan_results, scan_id, report)
          /\ \E rendered \in BOOLEAN :
                response' = IF rendered
                            THEN [status |-> 200, scan_id |-> scan_id]
                            ELSE [status |-> 500, error |-> "Exception"]
    /\ pc' = "responded"
    /\ UNCHANGED <<compliance_framework, configuration, config_analysis,
                   vulnerability_analysis, compliance_checks,
                   compliance_analysis, summary, risk_assessment, report,
                   connection, exception, traceVars, request, clock,
                   handlers>>

\* run_scan's except clause: the exception scan() raised becomes the error
\* of a 500 response
ScanFails ==
    /\ pc = "failed"
    /\ response' = [status |-> 500, error |-> exception]
    /\ pc' = "responded"
    /\ UNCHANGED <<compliance_framework, configuration, config_analysis,
                   vulnerability_analysis, compliance_checks,
                   compliance_analysis, summary, risk_assessment, report,
                   connection, exception, traceVars, request, scan_results,
                   clock, handlers>>

Next ==
    \/ RunScan
    \/ Scan
    \/ Connect
    \/ GatherInfo
    \/ GatherFails
    \/ ExitContext
    \/ ConfigurationAnalysis
    \/ VulnerabilityDetection
    \/ CisCompliance
    \/ OracleCompliance
    \/ StoreAndRespond
    \/ ScanFails

Spec == Init /\ [][Next]_vars

(* The three oracle normalizers applied to a payload *)

\* the shapes of a critical_issues / warnings item: all fields, none, no
\* recommendation, no parameter
ConfigItemShapes ==
    {ConfigItem, EmptyDict,
     [parameter |-> "port", issue |-> "Default port",
      concern |-> "Port is well known", severity |-> "critical"],
     [issue |-> "Weak cipher", concern |-> "Cipher is dated",
      recommendation |-> "Use TLS 1.3", severity |-> "high"]}

ConfigItemLists == SeqsUpTo(ConfigItemShapes, MaxItems)

\* payloads for the configuration normalizer: both lists, one list missing,
\* one list null, the empty object, the error payload
ConfigNormalizerInputs ==
    {[critical_issues |-> c, warnings |-> w] :
        c \in ConfigItemLists, w \in ConfigItemLists}
    \cup {[critical_issues |-> c] : c \in ConfigItemLists}
    \cup {[warnings |-> w] : w \in ConfigItemLists}
    \cup {[critical_issues |-> JsonNull, warnings |-> w] :
            w \in PayloadLists({ConfigItem}, ConfigItem)}
    \cup {[critical_issues |-> c, warnings |-> JsonNull] :
            c \in PayloadLists({ConfigItem}, ConfigItem)}
    \cup {EmptyDict} \cup {analyze(o) : o \in OracleFailures}

VulnerabilityNormalizerInputs ==
    {[vulnerabilities |-> v] : v \in SeqsUpTo(VulnerabilityItems, MaxItems)}
    \cup {EmptyDict, [vulnerabilities |-> JsonNull]}
    \cup {detect(o) : o \in OracleFailures}

ComplianceNormalizerInputs ==
    CompliancePayloads
    \cup {[failed_checks |-> f] :
            f \in PayloadLists(FailedCheckItems, FailedCheckItem)}
    \cup {[passed_checks |-> Repeat(PassedCheckItem, k)] : k \in 0..MaxItems}
    \cup {[passed_checks |-> JsonNull, failed_checks |-> <<>>]}
    \cup {check_compliance(o, "STIG") : o \in OracleFailures}

NormalizerInputs ==
    ConfigNormalizerInputs \cup VulnerabilityNormalizerInputs
    \cup ComplianceNormalizerInputs

InitNormalizer ==
    /\ pc = "normalizer"
    /\ analysis_raw \in NormalizerInputs
    /\ compliance_framework = None
    /\ configuration = None
    /\ config_analysis = None
    /\ vulnerability_analysis = None
    /\ compliance_checks = None
    /\ compliance_analysis = None
    /\ summary = None
    /\ risk_assessment = None
    /\ report = None
    /\ connection = None
    /\ exception = None
    /\ calls = NoCalls
    /\ oracle_errors = {}
    /\ connect_error = None
    /\ ServiceInit

TransformConfigAnalysis ==
    /\ pc = "normalizer"
    /\ IF _transform_config_analysis_raises(analysis_raw)
       THEN exception' = "TypeError" /\ UNCHANGED config_analysis
       ELSE /\ config_analysis' = _transform_config_analysis(analysis_raw)
            /\ UNCHANGED exception
    /\ pc' = "config_normalized"
    /\ UNCHANGED <<compliance_framework, configuration,
                   vulnerability_analysis, compliance_checks,
                   compliance_analysis, summary, risk_assessment, report,
                   connection, traceVars, serviceVars>>

TransformVulnerabilityAnalysis ==
    /\ pc = "normalizer"
    /\ IF _transform_vulnerability_analysis_raises(analysis_raw)
       THEN exception' = "TypeError" /\ UNCHANGED vulnerability_analysis
       ELSE /\ vulnerability_analysis' =
                   _transform_vulnerability_analysis(analysis_raw)
            /\ UNCHANGED exception
    /\ pc' = "vulnerability_normalized"
    /\ UNCHANGED <<compliance_framework, configuration, config_analysis,
                   compliance_checks, compliance_analysis, summary,
                   risk_assessment, report, connection, traceVars,
                   serviceVars>>

TransformComplianceAnalysis ==
    /\ pc = "normalizer"
    /\ IF _transform_compliance_analysis_raises(analysis_raw)
       THEN exception' = "TypeError" /\ UNCHANGED compliance_analysis
       ELSE /\ compliance_analysis' =
                   _transform_compliance_analysis(analysis_raw)
            /\ UNCHANGED exception
    /\ pc' = "compliance_normalized"
    /\ UNCHANGED <<compliance_framework, configuration, config_analysis,
                   vulnerability_analysis, compliance_checks, summary,
                   risk_assessment, report, connection, traceVars,
                   serviceVars>>

NextNormalizer ==
    \/ TransformConfigAnalysis
    \/ TransformVulnerabilityAnalysis
    \/ TransformComplianceAnalysis

SpecNormalizer == InitNormalizer /\ [][NextNormalizer]_vars

(* Several /scan requests served at once: run_scan from the return of
   scanner.scan on, one thread per request, on the shared scan_results *)

RequestIds == 1..MaxRequests

\* the report scanner.scan returns to request r
ReportOf(r) == [scan_info |-> [request |-> r]]

InitApp ==
    /\ pc = "serving"
    /\ handlers = [r \in RequestIds |->
                      [pc |-> "request", report |-> None, scan_id |-> None,
                       status |-> 0, issued |-> None]]
    /\ scan_results = EmptyDict
    /\ clock = 0
    /\ request = None
    /\ response = [scan_id |-> 0, status |-> 0]
    /\ compliance_framework = None
    /\ configuration = None
    /\ config_analysis = None
    /\ vulnerability_analysis = None
    /\ compliance_checks = None
    /\ compliance_analysis = None
    /\ summary = None
    /\ risk_assessment = None
    /\ report = None
    /\ connection = None
    /\ exception = None
    /\ TraceInit

\* time passes
Tick ==
    /\ clock < MaxClock
    /\ clock' = clock + 1
    /\ UNCHANGED <<scanVars, traceVars, request, response, scan_results,
                   handlers>>

\* the body is read: int(port) raises and the except clause answers 500, or
\* database or user is missing and the answer is 400, or the scan may start
HandlerValidate ==
    \E r \in RequestIds :
        /\ handlers[r].pc = "request"
        /\ \E body \in {"bad_port", "incomplete", "valid"} :
              handlers' =
                  [handlers EXCEPT ![r] =
                      IF body = "bad_port"
                      THEN [@ EXCEPT !.pc = "responded", !.status = 500]
                      ELSE IF body = "incomplete"
                      THEN [@ EXCEPT !.pc = "responded", !.status = 400]
                      ELSE [@ EXCEPT !.pc = "scan"]]
        /\ UNCHANGED <<scanVars, traceVars, request, response, scan_results,
                       clock>>

\* report = scanner.scan(...): the scan returns its report, or raises and
\* the except clause answers 500
HandlerScan ==
    \E r \in RequestIds :
        /\ handlers[r].pc = "scan"
        /\ \E returns \in BOOLEAN :
              handlers' =
                  [handlers EXCEPT ![r] =
                      IF returns
                      THEN [@ EXCEPT !.pc = "scanned", !.report = ReportOf(r)]
                      ELSE [@ EXCEPT !.pc = "responded", !.status = 500]]
        /\ UNCHANGED <<scanVars, traceVars, request, response, scan_results,
                       clock>>

\* scan_id = datetime.now().strftime('%Y%m%d_%H%M%S')
HandlerScanId ==
    \E r \in RequestIds :
        /\ handlers[r].pc = "scanned"
        /\ handlers' = [handlers EXCEPT ![r].pc = "named",
                                        ![r].scan_id = strftime(clock)]
        /\ UNCHANGED <<scanVars, traceVars, request, response, scan_results,
                       clock>>

\* scan_results[scan_id] = report
HandlerStore ==
    \E r \in RequestIds :
        /\ handlers[r].pc = "named"
        /\ scan_results' = SetItem(scan_results, handlers[r].scan_id,
                                   handlers[r].report)
        /\ handlers' = [handlers EXCEPT ![r].pc = "stored"]
        /\ UNCHANGED <<scanVars, traceVars, request, response, clock>>

\* the reports are generated and jsonify({'success': True, 'scan_id':
\* scan_id, ...}) is returned; or one of these calls raises and the except
\* clause answers 500
HandlerRespond ==
    \E r \in RequestIds :
        /\ handlers[r].pc = "stored"
        /\ \E rendered \in BOOLEAN :
              handlers' =
                  [handlers EXCEPT ![r] =
                      IF rendered
                      THEN [@ EXCEPT !.pc = "responded", !.status = 200,
                                     !.issued = handlers[r].scan_id]
                      ELSE [@ EXCEPT !.pc = "responded", !.status = 500]]
        /\ UNCHANGED <<scanVars, traceVars, request, response, scan_results,
                       clock>>

\* the scan ids a lookup may ask for: every id the clock can give, and one
\* more
LookupIds == 0..(strftime(MaxClock) + 1)

\* view_results(scan_id) / get_results_json(scan_id): a stored report is
\* never an empty dict, so `not report` is true exactly when no entry exists
GetResults ==
    /\ pc = "serving"
    /\ \E scan_id \in LookupIds :
          LET found == scan_id \in DOMAIN scan_results
          IN response' = [scan_id |-> scan_id,
                          status |-> IF found THEN 200 ELSE 404]
    /\ UNCHANGED <<scanVars, traceVars, request, scan_results, clock,
                   handlers>>

NextApp ==
    \/ Tick
    \/ HandlerValidate
    \/ HandlerScan
    \/ HandlerScanId
    \/ HandlerStore
    \/ HandlerRespond
    \/ GetResults

SpecApp == InitApp /\ [][NextApp]_vars

-----------------------------------------------------------------------------
(* Claims about the risk aggregator (SpecAggregator)                       *)

AggIssues == DictGet(config_analysis, "issues", <<>>)
AggCriticalCount ==
    Cardinality({i \in DOMAIN AggIssues :
        "severity" \in DOMAIN AggIssues[i] /\ AggIssues[i].severity = "critical"})
AggWarningCount ==
    Cardinality({i \in DOMAIN AggIssues :
        "severity" \in DOMAIN AggIssues[i]
        /\ AggIssues[i].severity \in {"medium", "high"}})
AggVulnerabilityCount == Len(DictGet(vulnerability_analysis, "vulnerabilities", <<>>))
AggCompliancePct ==
    DictGet(compliance_analysis, "compliance_percentage", PyInt(100))
\* 100 - 20*critical_count - 5*warning_count - 10*vulnerability_count
AggPenalised ==
    100 - 20 * AggCriticalCount - 5 * AggWarningCount - 10 * AggVulnerabilityCount
\* the ceiling is below the penalised score
AggCeilingBinds == AggCompliancePct.n < AggPenalised * AggCompliancePct.d

\* C1: the security score equals max(0, min(100 - 20*critical - 5*warning
\* - 10*vulnerability, compliance_percentage)), with critical, warning and
\* vulnerability counted as the claim defines them.
C1_ScoreFormula ==
    pc = "aggregated" =>
        LET score == risk_assessment.security_score
        IN /\ risk_assessment.critical_issue_count = AggCriticalCount
           /\ risk_assessment.warning_count = AggWarningCount
           /\ risk_assessment.vulnerability_count = AggVulnerabilityCount
           /\ IF AggCeilingBinds
              THEN IF AggCompliancePct.n < 0 THEN score.n = 0
                   ELSE score.n * AggCompliancePct.d = AggCompliancePct.n * score.d
              ELSE IF AggPenalised < 0 THEN score.n = 0
                   ELSE score.n = AggPenalised * score.d

\* C1 witness: critical issues, warnings and vulnerabilities are all
\* penalised and the compliance ceiling is what decides the score.
C1_Witness ==
    /\ pc = "aggregated"
    /\ AggCriticalCount >= 1 /\ AggWarningCount >= 1
    /\ AggVulnerabilityCount >= 1
    /\ AggPenalised > 0
    /\ AggCeilingBinds
    /\ risk_assessment.security_score.n > 0

\* C2: the returned score is at least 0, at most 100 and at most the
\* compliance percentage.
C2_ScoreBounds ==
    pc = "aggregated" =>
        LET score == risk_assessment.security_score
        IN /\ score.n >= 0
           /\ score.n <= 100 * score.d
           /\ score.n * AggCompliancePct.d <= AggCompliancePct.n * score.d

\* C2 witness: the penalties alone take the score below 0 and it is
\* returned as 0.
C2_Witness ==
    /\ pc = "aggregated"
    /\ AggPenalised < 0
    /\ risk_assessment.security_score.n = 0

\* C4: the risk level is decided by the score alone (>= 90 low, >= 70
\* medium, >= 50 high, else critical); the report's risk_level is that level
\* in upper case and its security_score and critical_issues are those of the
\* risk assessment.
C4_BandsAndReportFields ==
    pc = "aggregated" =>
        LET score == risk_assessment.security_score
            level == risk_assessment.risk_level
        IN /\ (score.n >= 90 * score.d) => level = "low"
           /\ (score.n >= 70 * score.d /\ score.n < 90 * score.d)
                 => level = "medium"
           /\ (score.n >= 50 * score.d /\ score.n < 70 * score.d)
                 => level = "high"
           /\ (score.n < 50 * score.d) => level = "critical"
           /\ level = "low" => report.risk_level = "LOW"
           /\ level = "medium" => report.risk_level = "MEDIUM"
           /\ level = "high" => report.risk_level = "HIGH"
           /\ level = "critical" => report.risk_level = "CRITICAL"
           /\ report.security_score = risk_assessment.security_score
           /\ report.critical_issues = risk_assessment.critical_issue_count

\* C4 witness: a score of 89 is reported as MEDIUM.
C4_Witness ==
    /\ pc = "aggregated"
    /\ risk_assessment.security_score.n = 89
    /\ risk_assessment.security_score.d = 1
    /\ risk_assessment.risk_level = "medium"
    /\ report.risk_level = "MEDIUM"
    /\ report.security_score.n = 89

-----------------------------------------------------------------------------
(* Claims about the rule catalog (SpecCatalog)                             *)

CheckIds == {"2.2", "2.3", "2.4", "2.5", "4.2", "4.3"}

\* the parameter that governs a check, its unset default, the values that
\* pass it and its severity, as the claims state them
Governing(id) ==
    CASE id = "2.2" -> "logging_collector"
      [] id = "2.3" -> "log_connections"
      [] id = "2.4" -> "log_disconnections"
      [] id = "2.5" -> "log_statement"
      [] id = "4.2" -> "ssl"
      [] id = "4.3" -> "password_encryption"

UnsetDefault(id) ==
    CASE id = "2.5" -> "none" [] id = "4.3" -> "md5" [] OTHER -> "off"

Passing(id) ==
    CASE id = "2.5" -> {"ddl", "mod", "all"}
      [] id = "4.3" -> {"scram-sha-256"}
      [] OTHER -> {"on"}

StatedSeverity(id) ==
    CASE id \in {"2.2", "2.5"} -> "high"
      [] id \in {"2.3", "2.4"} -> "medium"
      [] id \in {"4.2", "4.3"} -> "critical"

\* the governing parameter of a check has a value in the snapshot
HasValue(id) ==
    /\ Governing(id) \in DOMAIN configuration
    /\ "value" \in DOMAIN configuration[Governing(id)]

Checked == pc \in {"checked", "summarized"}

\* C5: run_all_checks returns six results, exactly one for each check id.
C5_OneResultPerCheck ==
    Checked =>
        /\ Len(compliance_checks) = 6
        /\ \A id \in CheckIds :
              Cardinality({i \in DOMAIN compliance_checks :
                              compliance_checks[i].check_id = id}) = 1

\* C5 witness: the checks have run on a snapshot that holds some of the
\* parameters and lacks others.
C5_Witness ==
    /\ pc = "checked"
    /\ DOMAIN configuration = {"ssl", "log_statement"}
    /\ Len(compliance_checks) = 6

\* C6: a check passes exactly when its own governing parameter holds a
\* passing value, and its severity and remediation are the same for every
\* snapshot.
C6_StatusByOwnParameter ==
    Checked =>
        \A i \in DOMAIN compliance_checks :
            LET r == compliance_checks[i]
            IN /\ r.check_id \in CheckIds
               /\ (r.status = "PASS") <=>
                     (/\ HasValue(r.check_id)
                      /\ configuration[Governing(r.check_id)].value
                            \in Passing(r.check_id))
               /\ r.status \in {"PASS", "FAIL"}
               /\ r.severity = StatedSeverity(r.check_id)
               /\ r.remediation = run_all_checks(EmptyDict)[i].remediation

\* C6 witness: log_statement = mod passes 2.5 while ssl = off fails 4.2 in
\* the same snapshot.
C6_Witness ==
    /\ pc = "checked"
    /\ \E i, j \in DOMAIN compliance_checks :
          /\ compliance_checks[i].check_id = "2.5"
          /\ compliance_checks[i].current_value = "mod"
          /\ compliance_checks[i].status = "PASS"
          /\ compliance_checks[j].check_id = "4.2"
          /\ compliance_checks[j].current_value = "off"
          /\ compliance_checks[j].status = "FAIL"

\* C7: a check whose governing parameter is absent, or whose record has no
\* value field, reports the unset default and FAILs; the empty snapshot
\* gives six FAIL results and a compliance percentage of 0.0.
C7_MissingParameterFails ==
    /\ Checked =>
          \A i \in DOMAIN compliance_checks :
              LET r == compliance_checks[i]
              IN ~HasValue(r.check_id) =>
                    /\ r.current_value = UnsetDefault(r.check_id)
                    /\ r.status = "FAIL"
    /\ (pc = "summarized" /\ configuration = EmptyDict) =>
          /\ Len(compliance_checks) = 6
          /\ \A i \in DOMAIN compliance_checks :
                compliance_checks[i].status = "FAIL"
          /\ summary.compliance_percentage = [n |-> 0, d |-> 1, f |-> TRUE]

\* C7 witness: the empty snapshot has been evaluated and summarized.
C7_Witness ==
    /\ pc = "summarized"
    /\ configuration = EmptyDict
    /\ summary.failed = 6

\* the FAIL results of severity critical among the summary's checks
SummaryCriticalFails ==
    {i \in DOMAIN summary.all_checks :
        /\ summary.all_checks[i].status = "FAIL"
        /\ summary.all_checks[i].severity = "critical"}
SummaryPasses ==
    {i \in DOMAIN summary.all_checks : summary.all_checks[i].status = "PASS"}

\* C8: the summary has total_checks = 6, passed + failed = total_checks,
\* compliance_percentage = passed / total_checks * 100 (100.0 exactly when
\* all six pass) and critical_failures = the number of critical FAILs.
C8_SummaryArithmetic ==
    pc = "summarized" =>
        /\ summary.all_checks = compliance_checks
        /\ summary.total_checks = 6
        /\ summary.passed = Cardinality(SummaryPasses)
        /\ summary.passed + summary.failed = summary.total_checks
        /\ summary.compliance_percentage.f
        /\ summary.compliance_percentage.n * summary.total_checks
              = summary.passed * 100 * summary.compliance_percentage.d
        /\ summary.compliance_percentage.n >= 0
        /\ summary.compliance_percentage.n <= 100 * summary.compliance_percentage.d
        /\ (summary.compliance_percentage.n = 100 * summary.compliance_percentage.d)
              <=> (summary.passed = 6 /\ summary.failed = 0)
        /\ summary.critical_failures = Cardinality(SummaryCriticalFails)
        /\ summary.critical_failures <= summary.failed

\* C8 witness: four checks pass, one of the two failures is critical.
C8_Witness ==
    /\ pc = "summarized"
    /\ summary.passed = 4
    /\ summary.critical_failures = 1

-----------------------------------------------------------------------------
(* Claims about a scan (Spec)                                              *)

Severities == {"critical", "high", "medium", "low"}

ReportRisk == report.overall_risk_assessment
ReportIssues == report.config_analysis.issues
ReportVulnerabilities == report.vulnerability_analysis.vulnerabilities
ReportFailedChecks == report.compliance_analysis.failed_checks

\* the report of a CIS scan lists the SSL check (4.2) among the failed checks
SslCheckFailed ==
    /\ report.scan_info.compliance_framework = "CIS"
    /\ \E i \in DOMAIN ReportFailedChecks : ReportFailedChecks[i].check_id = "4.2"

ReportCriticalIssues ==
    Cardinality({i \in DOMAIN ReportIssues : ReportIssues[i].severity = "critical"})

\* C3: the security score of every report a scan produces is an integer in
\* 0..100.
C3_ScoreIsInteger ==
    pc = "done" =>
        /\ report.security_score.d = 1
        /\ report.security_score.n \in 0..100
        /\ ReportRisk.security_score.d = 1

C10_SeverityInFixedSet ==
    pc = "done" =>
        /\ \A i \in DOMAIN ReportIssues : ReportIssues[i].severity \in Severities
        /\ \A i \in DOMAIN ReportVulnerabilities :
              ReportVulnerabilities[i].severity \in Severities
        /\ \A i \in DOMAIN ReportFailedChecks :
              ReportFailedChecks[i].severity \in Severities

-----------------------------------------------------------------------------
(* Claims about the normalizers (SpecNormalizer)                           *)

Normalized ==
    pc \in {"config_normalized", "vulnerability_normalized",
            "compliance_normalized"}

\* C11: none of the three oracle normalizers raises on a malformed or partial
\* payload (the empty object, an error payload, a list key missing or null,
\* items missing fields): each returns a sequence of findings.
C11_NormalizersNeverRaise ==
    Normalized =>
        /\ exception = None
        /\ pc = "config_normalized" =>
              DOMAIN config_analysis.issues = 1..Len(config_analysis.issues)
        /\ pc = "vulnerability_normalized" =>
              DOMAIN vulnerability_analysis.vulnerabilities =
                  1..Len(vulnerability_analysis.vulnerabilities)
        /\ pc = "compliance_normalized" =>
              DOMAIN compliance_analysis.failed_checks =
                  1..Len(compliance_analysis.failed_checks)

IssueFields == {"title", "description", "severity", "remediation"}

\* The configuration normalizer, given a payload whose two list keys are
\* each missing or a list, returns one issue per item: the critical_issues
\* items first, then the warnings items, each in input order, with the
\* severity forced, description and remediation defaulting to the empty
\* string, and the title built from the parameter or from parameter_default.
ConfigNormalizerContract(parameter_default) ==
    (/\ pc = "config_normalized"
     /\ ListOrMissing(analysis_raw, "critical_issues")
     /\ ListOrMissing(analysis_raw, "warnings")) =>
        LET c == IF "critical_issues" \in DOMAIN analysis_raw
                 THEN analysis_raw.critical_issues ELSE <<>>
            w == IF "warnings" \in DOMAIN analysis_raw
                 THEN analysis_raw.warnings ELSE <<>>
            out == config_analysis.issues
            Field(item, f) == IF f \in DOMAIN item THEN item[f] ELSE ""
            Parameter(item) == IF "parameter" \in DOMAIN item
                               THEN item.parameter ELSE parameter_default
        IN /\ exception = None
           /\ DOMAIN config_analysis = {"issues"}
           /\ Len(out) = Len(c) + Len(w)
           /\ \A i \in 1..Len(out) : DOMAIN out[i] = IssueFields
           /\ \A i \in 1..Len(c) :
                 /\ out[i].severity = "critical"
                 /\ out[i].title = Parameter(c[i]) \o " Misconfiguration"
                 /\ out[i].description = Field(c[i], "issue")
                 /\ out[i].remediation = Field(c[i], "recommendation")
           /\ \A j \in 1..Len(w) :
                 /\ out[Len(c) + j].severity = "medium"
                 /\ out[Len(c) + j].title = Parameter(w[j]) \o " Warning"
                 /\ out[Len(c) + j].description = Field(w[j], "concern")
                 /\ out[Len(c) + j].remediation =
                        Field(w[j], "recommendation")

\* C20: the configuration normalizer emits one issue per raw item, critical
\* issues first and warnings after, in input order, severities forced to
\* critical and medium whatever the item says; a missing list is empty and
\* every missing item field defaults to the empty string.
C20_MissingFieldsEmpty == ConfigNormalizerContract("")

\* C20 as amended: the same, a missing parameter giving the title
\* "Unknown Misconfiguration" / "Unknown Warning".
C20_OneIssuePerItem == ConfigNormalizerContract("Unknown")

\* both lists given; a critical issue without parameter and a warning the
\* oracle rated critical have been normalized
C20_Witness ==
    /\ pc = "config_normalized"
    /\ exception = None
    /\ DOMAIN analysis_raw = {"critical_issues", "warnings"}
    /\ \E i \in DOMAIN analysis_raw.critical_issues :
          /\ "parameter" \notin DOMAIN analysis_raw.critical_issues[i]
          /\ "issue" \in DOMAIN analysis_raw.critical_issues[i]
    /\ \E j \in DOMAIN analysis_raw.warnings :
          /\ "severity" \in DOMAIN analysis_raw.warnings[j]
          /\ analysis_raw.warnings[j].severity = "critical"
    /\ Len(config_analysis.issues) = MaxItems + MaxItems

\* the list a payload holds under key, a missing key counting as empty
ListOf(r, key) == IF key \in DOMAIN r THEN r[key] ELSE <<>>

\* the field f of an item, or the default when the item has none
FieldOr(item, f, default) == IF f \in DOMAIN item THEN item[f] ELSE default

\* C21: the vulnerability normalizer and the oracle-compliance normalizer
\* emit one finding per raw item in input order; an item without severity
\* (risk_level for a failed check) gets 'medium', and an absent cve identifier
\* stays None.
C21_OneFindingPerItem ==
    /\ (/\ pc = "vulnerability_normalized"
        /\ ListOrMissing(analysis_raw, "vulnerabilities")) =>
          LET v == ListOf(analysis_raw, "vulnerabilities")
              out == vulnerability_analysis.vulnerabilities
          IN /\ exception = None
             /\ Len(out) = Len(v)
             /\ \A i \in 1..Len(v) :
                   /\ out[i].title =
                          FieldOr(v[i], "title", "Unknown Vulnerability")
                   /\ out[i].description = FieldOr(v[i], "description", "")
                   /\ out[i].remediation = FieldOr(v[i], "remediation", "")
                   /\ out[i].severity =
                          IF "severity" \in DOMAIN v[i] THEN v[i].severity
                          ELSE "medium"
                   /\ out[i].cve_id =
                          IF "cve_id" \in DOMAIN v[i] THEN v[i].cve_id
                          ELSE None
    /\ (/\ pc = "compliance_normalized"
        /\ ListOrMissing(analysis_raw, "failed_checks")
        /\ ListOrMissing(analysis_raw, "passed_checks")) =>
          LET f == ListOf(analysis_raw, "failed_checks")
              out == compliance_analysis.failed_checks
          IN /\ exception = None
             /\ Len(out) = Len(f)
             /\ \A i \in 1..Len(f) :
                   /\ out[i].check_id = FieldOr(f[i], "check_id", "Unknown")
                   /\ out[i].title = FieldOr(f[i], "title", "")
                   /\ out[i].current_value =
                          FieldOr(f[i], "current_state", "")
                   /\ out[i].remediation = FieldOr(f[i], "remediation", "")
                   /\ out[i].severity =
                          IF "risk_level" \in DOMAIN f[i] THEN f[i].risk_level
                          ELSE "medium"

\* a full list of vulnerabilities, one of them without severity and without
\* cve identifier and one with both, has been normalized
C21_Witness ==
    /\ pc = "vulnerability_normalized"
    /\ exception = None
    /\ "vulnerabilities" \in DOMAIN analysis_raw
    /\ Len(analysis_raw.vulnerabilities) = MaxItems
    /\ \E i \in DOMAIN analysis_raw.vulnerabilities :
          DOMAIN analysis_raw.vulnerabilities[i] = {}
    /\ \E i \in DOMAIN analysis_raw.vulnerabilities :
          "cve_id" \in DOMAIN analysis_raw.vulnerabilities[i]
    /\ Len(vulnerability_analysis.vulnerabilities) = MaxItems

-----------------------------------------------------------------------------
(* Claims about one /scan request (Spec)                                   *)

ReportSections ==
    {"config_analysis", "vulnerability_analysis", "compliance_analysis",
     "overall_risk_assessment"}

RiskAssessmentFields ==
    {"security_score", "risk_level", "critical_issue_count", "warning_count",
     "vulnerability_count", "compliance_percentage"}

\* the analysis whose oracle call fails in this step
FailsNow(analysis) ==
    analysis \in oracle_errors' /\ analysis \notin oracle_errors

\* C12: when an oracle call fails the agent returns an error-marked payload
\* with empty finding lists, the scan goes on to the next analysis, and the
\* scan returns a report holding the three sections and the risk assessment,
\* every analysis having run once.
C12_OracleFailureRecovered ==
    [][/\ FailsNow("config") =>
            /\ pc' = "vulnerability"
            /\ "error" \in DOMAIN analysis_raw'
            /\ analysis_raw'.critical_issues = <<>>
            /\ analysis_raw'.warnings = <<>>
            /\ config_analysis'.issues = <<>>
       /\ FailsNow("vulnerability") =>
            /\ pc' = "compliance"
            /\ "error" \in DOMAIN analysis_raw'
            /\ analysis_raw'.vulnerabilities = <<>>
            /\ vulnerability_analysis'.vulnerabilities = <<>>
       /\ FailsNow("compliance") =>
            /\ pc' = "done"
            /\ \A o \in OracleFailures :
                  LET p == check_compliance(o, compliance_framework)
                  IN /\ "error" \in DOMAIN p
                     /\ p.passed_checks = <<>>
                     /\ p.failed_checks = <<>>
            /\ report'.compliance_analysis.failed_checks = <<>>
            /\ report'.compliance_analysis.total_checks = 0
       /\ (pc # "done" /\ pc' = "done") =>
            /\ ReportSections \subseteq DOMAIN report'
            /\ DOMAIN report'.overall_risk_assessment = RiskAssessmentFields
            /\ calls'.config_oracle = 1
            /\ calls'.vulnerability_oracle = 1
            /\ calls'.compliance_oracle + calls'.rule_catalog = 1
      ]_vars

\* a scan all of whose three oracle calls failed has returned its report
C12_Witness ==
    /\ pc = "done"
    /\ oracle_errors = {"config", "vulnerability", "compliance"}
    /\ ReportSections \subseteq DOMAIN report


\* C13: when an oracle call fails during a scan, the section of the report
\* for that analysis holds no findings and carries the error flag, and a
\* section whose analysis succeeded carries none.
C13_FailedSectionErrorFlagged ==
    pc = "done" =>
        /\ "config" \in oracle_errors <=>
              "error" \in DOMAIN report.config_analysis
        /\ "vulnerability" \in oracle_errors <=>
              "error" \in DOMAIN report.vulnerability_analysis
        /\ "compliance" \in oracle_errors <=>
              "error" \in DOMAIN report.compliance_analysis
        /\ "config" \in oracle_errors => ReportIssues = <<>>
        /\ "vulnerability" \in oracle_errors => ReportVulnerabilities = <<>>
        /\ "compliance" \in oracle_errors =>
              /\ ReportFailedChecks = <<>>
              /\ report.compliance_analysis.total_checks = 0


\* scan() has left its with block, by return or by exception
LeftWithBlock ==
    pc \in {"config", "vulnerability", "compliance", "done", "failed"}
    \/ (pc = "responded" /\ calls.connect > 0)

\* C14: on every exit path of the snapshot-gathering block, normal or by an
\* exception of a collector query, the connection opened for the scan is
\* closed and reset to none before scan() goes on, returns or raises.
C14_ConnectionClosedOnExit ==
    /\ LeftWithBlock => connection = None
    /\ connection # None => pc \in {"gather", "exit"}

\* a scan whose connection was open and whose collector query raised
C14_Witness ==
    /\ pc = "failed"
    /\ exception = "psycopg2.Error"
    /\ connect_error = None
    /\ connection = None

\* C15: if the connection cannot be established the scan fails: connect is
\* attempted once, no oracle and no rule catalog is invoked, no report is
\* returned and nothing is added to the report store.
C15_ConnectFailureFailsScan ==
    connect_error # None =>
        /\ calls.connect = 1
        /\ calls.config_oracle = 0
        /\ calls.vulnerability_oracle = 0
        /\ calls.compliance_oracle = 0
        /\ calls.rule_catalog = 0
        /\ pc \in {"gather", "exit", "failed", "responded"}
        /\ report = None
        /\ scan_results = EmptyDict
        /\ pc \in {"failed", "responded"} => exception # None
        /\ pc = "responded" => response.status = 500

\* the request of a scan that could not connect has been answered
C15_Witness ==
    /\ pc = "responded"
    /\ connect_error # None
    /\ calls.connect = 1
    /\ response.status = 500

\* C16: when the connection cannot be established, the failure returned to
\* the caller is the connection error.
C16_FailureIsConnectionError ==
    (pc = "responded" /\ connect_error # None) =>
        /\ response.status = 500
        /\ response.error = connect_error


\* the request names no database, or no user
RequestLacks(field) == field \notin DOMAIN request \/ request[field] = ""

\* C17: a /scan request without database name or user is rejected with
\* status 400 before any collaborator is invoked (no scanner, no connection,
\* no oracle, store unchanged), whatever its other fields are.
C17_MissingFieldRejected ==
    (pc # "idle" /\ (RequestLacks("database") \/ RequestLacks("user"))) =>
        /\ pc = "responded"
        /\ response.status = 400
        /\ calls = NoCalls
        /\ connection = None
        /\ scan_results = EmptyDict

\* C18: the rule catalog is run exactly when compliance_framework is "CIS"
\* and the compliance oracle exactly when it is anything else; the
\* configuration and the vulnerability oracle are each called once per scan.
C18_EvaluatorByFramework ==
    /\ \A c \in Collaborators : calls[c] <= 1
    /\ calls.rule_catalog = 1 => compliance_framework = "CIS"
    /\ calls.compliance_oracle = 1 => compliance_framework # "CIS"
    /\ pc = "done" =>
          /\ calls.config_oracle = 1
          /\ calls.vulnerability_oracle = 1
          /\ IF compliance_framework = "CIS"
             THEN /\ calls.rule_catalog = 1
                  /\ calls.compliance_oracle = 0
                  /\ report.compliance_analysis.total_checks = Cardinality(CheckIds)
             ELSE /\ calls.rule_catalog = 0
                  /\ calls.compliance_oracle = 1

\* a scan asked for framework "cis" has finished on the oracle's verdict
C18_Witness ==
    /\ pc = "done"
    /\ compliance_framework = "cis"
    /\ calls.compliance_oracle = 1
    /\ calls.rule_catalog = 0

-----------------------------------------------------------------------------
(* Claims about concurrent /scan requests (SpecApp)                        *)

\* request r was answered with its scan id
Succeeded(r) == handlers[r].pc = "responded" /\ handlers[r].status = 200

\* C19: after any interleaving of successful /scan requests, every scan id
\* returned still maps in the store to the report of the request it was
\* returned to; no scan overwrites another's entry, not even one finishing
\* within the same second.
C19_ScanIdMapsToOwnReport ==
    \A r \in RequestIds :
        Succeeded(r) =>
            /\ handlers[r].scan_id \in DOMAIN scan_results
            /\ scan_results[handlers[r].scan_id] = handlers[r].report


(***************************************************************************)
(* Claims about the CIS normalizer (SpecCatalog)                           *)
(***************************************************************************)

\* the positions of the results whose status is FAIL / PASS
FailPositions(checks) == {i \in DOMAIN checks : checks[i].status = "FAIL"}
PassPositions(checks) == {i \in DOMAIN checks : checks[i].status = "PASS"}

\* the position of the k-th FAIL result of the list
NthFail(checks, k) ==
    CHOOSE i \in FailPositions(checks) :
        Cardinality({j \in FailPositions(checks) : j <= i}) = k

\* C22: _transform_cis_checks turns every FAIL result into exactly one
\* failed-check finding, in the order of the list, carrying the result's
\* check_id, current_value, severity and remediation; no PASS result gives a
\* finding; and passed_checks plus the number of findings is total_checks,
\* the length of the list.
C22_FailsBecomeFindings ==
    pc = "transformed" =>
        LET checks == analysis_raw
            out == compliance_analysis
            found == out.failed_checks
        IN /\ Len(found) = Cardinality(FailPositions(checks))
           /\ \A k \in DOMAIN found :
                LET check == checks[NthFail(checks, k)]
                IN /\ found[k].check_id = check.check_id
                   /\ found[k].current_value = check.current_value
                   /\ found[k].severity = check.severity
                   /\ found[k].remediation = check.remediation
           /\ \A i \in PassPositions(checks) :
                \A k \in DOMAIN found : found[k].check_id # checks[i].check_id
           /\ out.passed_checks = Cardinality(PassPositions(checks))
           /\ out.total_checks = Len(checks)
           /\ out.passed_checks + Len(found) = out.total_checks

C22_Witness ==
    /\ pc = "transformed"
    /\ Len(analysis_raw) = 6
    /\ Cardinality(FailPositions(analysis_raw)) = 2
    /\ analysis_raw[1].status = "PASS"
    /\ analysis_raw[2].status = "FAIL"
    /\ Len(compliance_analysis.failed_checks) = 2
    /\ compliance_analysis.passed_checks = 4


\* C28: for every snapshot, _transform_cis_checks applied to the results of
\* run_all_checks gives the compliance_percentage of get_compliance_summary
\* for the same snapshot, and as many failed-check findings as the summary's
\* failed count.
C28_CisPathAgreesWithSummary ==
    (pc = "transformed" /\ analysis_raw = run_all_checks(configuration)) =>
        /\ NumEq(compliance_analysis.compliance_percentage,
                 summary.compliance_percentage)
        /\ Len(compliance_analysis.failed_checks) = summary.failed
        /\ compliance_analysis.total_checks = summary.total_checks
        /\ compliance_analysis.passed_checks = summary.passed

\* the CIS path has normalized the six results of a snapshot failing one check
C28_Witness ==
    /\ pc = "transformed"
    /\ analysis_raw = compliance_checks
    /\ summary.failed = 1
    /\ Len(compliance_analysis.failed_checks) = 1
    /\ ~NumEq(compliance_analysis.compliance_percentage, PyInt(100))

(***************************************************************************)
(* Claims about the order of a scan's calls (Spec)                         *)
(***************************************************************************)

\* the step makes a collector call / calls collaborator c
CollectorCalled == calls'.collector > calls.collector
NowCalled(c) == calls'[c] > calls[c]

\* the oracles and the rule catalog: the analyses that follow the with block
Analyses ==
    {"config_oracle", "vulnerability_oracle", "compliance_oracle",
     "rule_catalog"}

\* C24: within one scan every collector call happens while the connection is
\* open; an analysis is called only after all six collector calls, with the
\* connection closed; the analyses are called one at a time in the order
\* configuration analysis, vulnerability detection, compliance; and once an
\* analysis has been called no collector call follows.
C24_ConnectionHeldForGatheringOnly ==
    [][/\ CollectorCalled => connection = "open"
       /\ \A c \in Analyses : NowCalled(c) =>
             /\ connection = None
             /\ connection' = None
             /\ calls.collector = Len(Collectors)
             /\ \A d \in Analyses \ {c} : ~NowCalled(d)
       /\ NowCalled("config_oracle") =>
             \A c \in Analyses : calls[c] = 0
       /\ NowCalled("vulnerability_oracle") =>
             /\ calls.config_oracle = 1
             /\ calls.vulnerability_oracle = 0
             /\ calls.compliance_oracle = 0
             /\ calls.rule_catalog = 0
       /\ (NowCalled("compliance_oracle") \/ NowCalled("rule_catalog")) =>
             /\ calls.config_oracle = 1
             /\ calls.vulnerability_oracle = 1
             /\ calls.compliance_oracle = 0
             /\ calls.rule_catalog = 0
       /\ (\E c \in Analyses : calls[c] > 0) => ~CollectorCalled]_vars


\* the step is a result lookup
LookedUp == response' # response

\* C25: the store gains an entry only in a /scan request answered with
\* success: every entry was written by a request that is still being served
\* or was answered 200, a request answered with an error status was issued no
\* scan_id, and a result lookup leaves the store as it was and answers 404
\* exactly when the store has no entry for the id.
C25_StoreChangedOnlyBySuccess ==
    [][/\ \A id \in DOMAIN scan_results' :
             \E r \in RequestIds :
                 /\ \/ handlers'[r].pc = "stored"
                    \/ handlers'[r].pc = "responded" /\ handlers'[r].status = 200
                 /\ handlers'[r].scan_id = id
       /\ \A r \in RequestIds :
             (handlers'[r].pc = "responded" /\ handlers'[r].status # 200) =>
                 handlers'[r].issued = None
       /\ LookedUp =>
             /\ scan_results' = scan_results
             /\ (response'.status = 404) <=>
                    (response'.scan_id \notin DOMAIN scan_results)]_vars


(***************************************************************************)
(* Claims about the compliance ceiling of a scan (Spec)                    *)
(***************************************************************************)

\* C26: when the compliance analysis of a finished scan covers zero checks
\* (the oracle's error payload, or empty passed and failed lists), its
\* compliance_percentage is 0, and so is the security score it caps.
C26_ZeroChecksGiveZeroPercent ==
    (pc = "done" /\ report.compliance_analysis.total_checks = 0) =>
        /\ NumEq(report.compliance_analysis.compliance_percentage, PyInt(0))
        /\ NumEq(ReportRisk.security_score, PyInt(0))


\* C27: in every finished scan each normalized configuration issue is
\* penalised exactly once: every issue has severity 'critical' or 'medium',
\* and critical_issue_count + warning_count is the number of issues in
\* config_analysis.
C27_EachIssueCountedOnce ==
    pc = "done" =>
        /\ \A i \in DOMAIN ReportIssues :
              ReportIssues[i].severity \in {"critical", "medium"}
        /\ ReportRisk.critical_issue_count + ReportRisk.warning_count
              = Len(ReportIssues)

\* a scan has finished whose oracle reported critical issues and warnings
C27_Witness ==
    /\ pc = "done"
    /\ ReportRisk.critical_issue_count = MaxItems
    /\ ReportRisk.warning_count >= 1
    /\ Len(ReportIssues) = MaxItems + ReportRisk.warning_count


\* C29: a finished scan with framework CIS reports LOW only if all six
\* catalog checks passed and the configuration analysis holds no critical
\* issue; with a failing check the security score is at most 5/6 of 100,
\* below 90, and the level is not LOW.
C29_LowNeedsAllChecksPassed ==
    (pc = "done" /\ compliance_framework = "CIS") =>
        /\ report.compliance_analysis.total_checks = Cardinality(CheckIds)
        /\ report.risk_level = "LOW" =>
              /\ ReportFailedChecks = <<>>
              /\ report.compliance_analysis.passed_checks = Cardinality(CheckIds)
              /\ ReportRisk.critical_issue_count = 0
        /\ ReportFailedChecks # <<>> =>
              /\ NumLe(ReportRisk.security_score,
                       Percentage(Cardinality(CheckIds) - 1, Cardinality(CheckIds)))
              /\ NumLt(ReportRisk.security_score, PyInt(90))
              /\ report.risk_level # "LOW"

\* a CIS scan with one failing check and nothing else found has finished:
\* the score is 5/6 of 100 and the level is MEDIUM
C29_Witness ==
    /\ pc = "done"
    /\ compliance_framework = "CIS"
    /\ Len(ReportFailedChecks) = 1
    /\ ReportIssues = <<>>
    /\ ReportVulnerabilities = <<>>
    /\ NumEq(ReportRisk.security_score,
             Percentage(Cardinality(CheckIds) - 1, Cardinality(CheckIds)))
    /\ report.risk_level = "MEDIUM"


(***************************************************************************)
(* Claims about the aggregator's monotonicity (SpecAggregator)             *)
(***************************************************************************)

\* the bands from least to most severe
BandRank(level) ==
    CASE level = "low" -> 0
      [] level = "medium" -> 1
      [] level = "high" -> 2
      [] level = "critical" -> 3

\* the percentages a lowered compliance_percentage is drawn from
LoweredPercentages ==
    UNION {{Percentage(p, t) : p \in 0..t} : t \in 1..MaxTotal}

\* the configuration analysis with one more issue, the vulnerability analysis
\* with one more vulnerability
WithIssue(item) == [issues |-> Append(AggIssues, item)]
WithVulnerability ==
    [vulnerabilities |->
        Append(DictGet(vulnerability_analysis, "vulnerabilities", <<>>),
               EmptyDict)]

\* the assessment is no better than the one computed from the state's inputs
NoBetter(assessment) ==
    /\ NumLe(assessment.security_score, risk_assessment.security_score)
    /\ BandRank(assessment.risk_level) >= BandRank(risk_assessment.risk_level)

\* C30: the aggregator is monotone: one more configuration issue, one more
\* vulnerability, or a lower compliance_percentage never gives a higher
\* security score nor a less severe risk level.
C30_AggregatorMonotone ==
    pc = "aggregated" =>
        /\ \A item \in IssueItems :
              NoBetter(_calculate_overall_risk(WithIssue(item),
                           vulnerability_analysis, compliance_analysis))
        /\ NoBetter(_calculate_overall_risk(config_analysis,
                        WithVulnerability, compliance_analysis))
        /\ \A p \in LoweredPercentages :
              NumLe(p, risk_assessment.compliance_percentage) =>
                  NoBetter(_calculate_overall_risk(config_analysis,
                               vulnerability_analysis,
                               [compliance_percentage |-> p]))

\* an assessment of score 100 that one more critical issue takes to a lower
\* score and a more severe band, and a lower percentage too
C30_Witness ==
    /\ pc = "aggregated"
    /\ NumEq(risk_assessment.security_score, PyInt(100))
    /\ LET worse == _calculate_overall_risk(
                        WithIssue([severity |-> "critical"]),
                        vulnerability_analysis, compliance_analysis)
       IN /\ NumLt(worse.security_score, risk_assessment.security_score)
          /\ BandRank(worse.risk_level) > BandRank(risk_assessment.risk_level)
    /\ \E p \in LoweredPercentages :
          LET capped == _calculate_overall_risk(config_analysis,
                            vulnerability_analysis,
                            [compliance_percentage |-> p])
          IN NumLt(capped.security_score, risk_assessment.security_score)

====
